---------------------------- MODULE Spec2Model ----------------------------
(***************************************************************************)
(* Raft simulation engine: the per-node protocol handlers of               *)
(* utils/raftLogic.ts and the tick scheduler and the two user operations   *)
(* (toggleNodeState, proposeLog) of the App component.                     *)
(*                                                                         *)
(* Units.  Packet progress is kept in quarter percents so that the speed   *)
(* 1.5 * playbackSpeed is an integer for every slider position             *)
(* (playbackSpeed is kept in slider steps of 0.5).  Log indices are the    *)
(* source's 0-based indices; At(log, i) reads log[i].                      *)
(*                                                                         *)
(* Time.  One Tick step advances every timer and every packet by stride    *)
(* scheduler ticks at once; stride = 1 is the source's tick verbatim.  The *)
(* runs take TickStride ticks at once, those that move the speed slider    *)
(* SliderStride.  A paused tick returns at once and is a stuttering step.  *)
(***************************************************************************)
EXTENDS Integers, Sequences, FiniteSets, TLC

VARIABLES
    nodes,          \* stateRef.current.nodes: id -> RaftNode
    packets,        \* stateRef.current.packets: sequence of Packet
    votesReceived,  \* stateRef.current.votesReceived: id -> set of voter ids
    playbackSpeed,  \* the speed slider, in steps of 0.5
    everLeader,     \* history: <<term, id>> of every node seen as Leader after a tick
    leaderCommits,  \* history: every raise of a leader's commitIndex
    grantedVotes,   \* history: <<voter, term, candidate>> of every granted VoteResponse
    toggles,        \* history: number of crashes and revivals of a free session
    scriptPos,      \* the operator: 0 in a free session, else the next step of Script
    watch,          \* history: Tick steps since the last call of the operator (or
                    \* since construction), NULL in the runs that are not timed
    stride          \* scheduler ticks taken by one Tick step of this run

vars == <<nodes, packets, votesReceived, playbackSpeed, everLeader, leaderCommits,
          grantedVotes, toggles, scriptPos, watch, stride>>

-----------------------------------------------------------------------------
(* Program constants *)

NODE_COUNT == 5
MIN_ELECTION_TIMEOUT == 150
MAX_ELECTION_TIMEOUT == 300
HEARTBEAT_INTERVAL == 50
\* PACKET_SPEED = 1.5 percent per tick, in quarter percents
PACKET_SPEED == 6
\* a packet arrives when progress >= 100 percent, in quarter percents
ARRIVAL == 400
\* votedFor: number | null
NULL == -1

FOLLOWER == "FOLLOWER"
CANDIDATE == "CANDIDATE"
LEADER == "LEADER"
CRASHED == "CRASHED"

REQUEST_VOTE == "REQUEST_VOTE"
VOTE_RESPONSE == "VOTE_RESPONSE"
APPEND_ENTRIES == "APPEND_ENTRIES"
APPEND_RESPONSE == "APPEND_RESPONSE"

NodeIds == 0 .. (NODE_COUNT - 1)

-----------------------------------------------------------------------------
(* Bounds of the model *)

\* scheduler ticks taken by one Tick step
TickStride == 67
\* scheduler ticks taken by one Tick step of the runs that move the slider
SliderStride == 50
\* no election is started by a node whose term has reached MaxTerm
MaxTerm == 2
\* proposeLog is not called on a leader whose log holds MaxLogLen entries
MaxLogLen == 2
\* number of crashes and revivals in a free session
MaxToggles == 2
\* the ids toggleNodeState is called with (NODE_COUNT is no node's id)
ToggleIds == {0, 1, NODE_COUNT}
\* Math.random() is taken to return r / RandomScale, r in RandomChoices
RandomScale == 1000
RandomChoices == {0, RandomScale - 1}
\* the commands proposeLog is taken to draw
CommandChoices == {"SET X=5", "ADD USER"}
\* the slider positions used: 0.5x, 1x and 1.5x
SpeedChoices == {1, 2, 3}
\* Tick steps in which the longest election timer runs out
RoundTicks == (MAX_ELECTION_TIMEOUT + TickStride - 1) \div TickStride
\* Tick steps from construction within which the elections up to MaxTerm are
\* over: a round per term, and the way of RequestVote, VoteResponse and the
\* first AppendEntries
ElectionHorizon == RoundTicks * MaxTerm + 4
\* the watch stops at MaxWatch Tick steps
MaxWatch == ElectionHorizon + 2

-----------------------------------------------------------------------------
(* Helpers *)

Min(a, b) == IF a < b THEN a ELSE b
Max(a, b) == IF a > b THEN a ELSE b

\* log[i] with the source's 0-based index
At(log, i) == log[i + 1]

\* log.slice(i): the entries from 0-based index i to the end
Slice(log, i) == SubSeq(log, i + 1, Len(log))

\* (m[k] || 1): an absent key and the value 0 both give 1
OrOne(m, k) == IF k \in DOMAIN m /\ m[k] # 0 THEN m[k] ELSE 1

\* m[k] = v on a Record<number, number>
Put(m, k, v) == [x \in (DOMAIN m) \cup {k} |-> IF x = k THEN v ELSE m[x]]

\* Object.values(m): the values in ascending key order
RECURSIVE ValuesFrom(_, _)
ValuesFrom(m, k) ==
    IF k >= NODE_COUNT THEN <<>>
    ELSE IF k \in DOMAIN m THEN <<m[k]>> \o ValuesFrom(m, k + 1)
    ELSE ValuesFrom(m, k + 1)

ObjectValues(m) == ValuesFrom(m, 0)

\* insertion of v into a descending sequence
RECURSIVE InsertDesc(_, _)
InsertDesc(s, v) ==
    IF s = <<>> THEN <<v>>
    ELSE IF v >= Head(s) THEN <<v>> \o s
    ELSE <<Head(s)>> \o InsertDesc(Tail(s), v)

\* matchIndexes.sort((a, b) => b - a)
RECURSIVE SortDesc(_)
SortDesc(s) == IF s = <<>> THEN <<>> ELSE InsertDesc(SortDesc(Tail(s)), Head(s))

-----------------------------------------------------------------------------
(* getRandomTimeout, createNode *)

\* Math.floor(Math.random() * (MAX - MIN + 1) + MIN), for Math.random() = r / RandomScale
getRandomTimeout(r) ==
    (r * (MAX_ELECTION_TIMEOUT - MIN_ELECTION_TIMEOUT + 1) + MIN_ELECTION_TIMEOUT * RandomScale)
        \div RandomScale

\* the values getRandomTimeout returns
TimeoutChoices == { getRandomTimeout(r) : r \in RandomChoices }

createNode(id, timeout, duration) ==
    [ id |-> id,
      state |-> FOLLOWER,
      currentTerm |-> 0,
      votedFor |-> NULL,
      log |-> <<>>,
      commitIndex |-> -1,
      electionTimeout |-> timeout,
      currentTimeoutDuration |-> duration,
      nextIndex |-> <<>>,
      matchIndex |-> <<>>,
      heartbeatTimer |-> 0 ]

-----------------------------------------------------------------------------
(* Packet processors (utils/raftLogic.ts) *)

\* variant: the term of any packet that differs from currentTerm is adopted
StepDownIfDifferent(node, term) ==
    IF term # node.currentTerm
    THEN [node EXCEPT !.currentTerm = term, !.state = FOLLOWER, !.votedFor = NULL]
    ELSE node

\* variant: the higher term is adopted and the role is kept
StepDownIfHigherKeepingRole(node, term) ==
    IF term > node.currentTerm
    THEN [node EXCEPT !.currentTerm = term, !.votedFor = NULL]
    ELSE node

\* If RPC request or response contains term T > currentTerm:
\* set currentTerm = T, convert to follower
StepDownIfHigher(node, term) ==
    IF term > node.currentTerm
    THEN [node EXCEPT !.currentTerm = term, !.state = FOLLOWER, !.votedFor = NULL]
    ELSE node

LastLogIndex(node) == Len(node.log) - 1

LastLogTerm(node) ==
    IF LastLogIndex(node) >= 0 THEN At(node.log, LastLogIndex(node)).term ELSE -1

LogIsUpToDate(node, lastLogIndex, lastLogTerm) ==
    \/ lastLogTerm > LastLogTerm(node)
    \/ lastLogTerm = LastLogTerm(node) /\ lastLogIndex >= LastLogIndex(node)

\* variant: the vote already given is not looked at
VoteGrantedAgain(node, payload) ==
    /\ payload.term >= node.currentTerm
    /\ LogIsUpToDate(node, payload.lastLogIndex, payload.lastLogTerm)

\* the vote decision, on the node after term adoption
VoteGranted(node, payload) ==
    /\ payload.term >= node.currentTerm
    /\ (node.votedFor = NULL \/ node.votedFor = payload.candidateId)
    /\ LogIsUpToDate(node, payload.lastLogIndex, payload.lastLogTerm)

processRequestVote(node, packet) ==
    LET payload == packet.payload
        adopted == StepDownIfHigher(node, payload.term)
        voteGranted == VoteGranted(adopted, payload)
        updatedNode ==
            IF voteGranted
            THEN [adopted EXCEPT !.votedFor = payload.candidateId,
                                 !.electionTimeout = adopted.currentTimeoutDuration]
            ELSE adopted
    IN  [ updatedNode |-> updatedNode,
          replyPacket |->
            [ from |-> node.id,
              to |-> payload.candidateId,
              type |-> VOTE_RESPONSE,
              payload |-> [term |-> updatedNode.currentTerm, voteGranted |-> voteGranted],
              progress |-> 0,
              speed |-> PACKET_SPEED ] ]

\* the branch for a granted vote of the current term is empty in the source
processVoteResponse(node, packet) ==
    [ updatedNode |-> StepDownIfHigher(node, packet.payload.term) ]

\* variant: the election timer is not restarted
AcceptLeaderTimerRunning(node, term) ==
    IF term >= node.currentTerm
    THEN [node EXCEPT !.currentTerm = term,
                      !.state = FOLLOWER,
                      !.votedFor = NULL]
    ELSE node

\* variant: a candidate stays candidate
AcceptLeaderAsCandidate(node, term) ==
    IF term >= node.currentTerm
    THEN [node EXCEPT !.currentTerm = term,
                      !.votedFor = NULL,
                      !.electionTimeout = node.currentTimeoutDuration]
    ELSE node

\* term >= currentTerm: adopt the term, become follower, forget the vote,
\* restart the election timer
AcceptLeader(node, term) ==
    IF term >= node.currentTerm
    THEN [node EXCEPT !.currentTerm = term,
                      !.state = FOLLOWER,
                      !.votedFor = NULL,
                      !.electionTimeout = node.currentTimeoutDuration]
    ELSE node

LogOk(log, prevLogIndex, prevLogTerm) ==
    \/ prevLogIndex = -1
    \/ Len(log) > prevLogIndex /\ At(log, prevLogIndex).term = prevLogTerm

\* variant: the entries are appended without a look at the log
InsertEntriesBlind(log, entries, logInsertIndex) == log \o entries

\* variant: a conflicting entry and all that follow it are deleted and the
\* new entry is not put in their place
RECURSIVE InsertEntriesCutting(_, _, _)
InsertEntriesCutting(log, entries, logInsertIndex) ==
    IF entries = <<>> THEN log
    ELSE IF logInsertIndex >= Len(log)
         THEN InsertEntriesCutting(Append(log, Head(entries)), Tail(entries),
                                   logInsertIndex + 1)
    ELSE IF At(log, logInsertIndex).term # Head(entries).term
         THEN InsertEntriesCutting(SubSeq(log, 1, logInsertIndex), Tail(entries),
                                   logInsertIndex + 1)
    ELSE InsertEntriesCutting(log, Tail(entries), logInsertIndex + 1)

\* the while loop over entries, from logInsertIndex on
RECURSIVE InsertEntries(_, _, _)
InsertEntries(log, entries, logInsertIndex) ==
    IF entries = <<>> THEN log
    ELSE IF logInsertIndex >= Len(log)
         THEN InsertEntries(Append(log, Head(entries)), Tail(entries), logInsertIndex + 1)
    ELSE IF At(log, logInsertIndex).term # Head(entries).term
         THEN InsertEntries(Append(SubSeq(log, 1, logInsertIndex), Head(entries)),
                            Tail(entries), logInsertIndex + 1)
    ELSE InsertEntries(log, Tail(entries), logInsertIndex + 1)

\* variant: the leader's commit index is taken over even when it is lower
FollowerCommitFollowing(commitIndex, leaderCommit, log) ==
    Min(leaderCommit, Len(log) - 1)

FollowerCommit(commitIndex, leaderCommit, log) ==
    IF leaderCommit > commitIndex
    THEN Min(leaderCommit, Len(log) - 1)
    ELSE commitIndex

processAppendEntries(node, packet) ==
    LET payload == packet.payload
        accepted == AcceptLeader(node, payload.term)
        success ==
            /\ ~(payload.term < accepted.currentTerm)
            /\ LogOk(accepted.log, payload.prevLogIndex, payload.prevLogTerm)
        newLog ==
            IF success
            THEN InsertEntries(accepted.log, payload.entries, payload.prevLogIndex + 1)
            ELSE accepted.log
        updatedNode ==
            IF success
            THEN [accepted EXCEPT
                    !.log = newLog,
                    !.commitIndex =
                        FollowerCommit(accepted.commitIndex, payload.leaderCommit, newLog)]
            ELSE accepted
    IN  [ updatedNode |-> updatedNode,
          replyPacket |->
            [ from |-> node.id,
              to |-> payload.leaderId,
              type |-> APPEND_RESPONSE,
              payload |-> [ term |-> updatedNode.currentTerm,
                            success |-> success,
                            matchIndex |-> Len(updatedNode.log) - 1 ],
              progress |-> 0,
              speed |-> PACKET_SPEED ] ]

-----------------------------------------------------------------------------
(* The tick loop (App component) *)

\* the node ids in array order
IdSeq == [k \in 1 .. NODE_COUNT |-> k - 1]

\* speed: Logic.PACKET_SPEED * playbackSpeed, playbackSpeed in steps of 0.5
BroadcastSpeed(speed) == (PACKET_SPEED * speed) \div 2

\* one packet per node of nodesList that is neither the sender nor crashed
broadcast(sender, type, payload, nodesList, speed) ==
    LET live(id) == id # sender.id /\ nodesList[id].state # CRASHED
        targets == SelectSeq(IdSeq, live)
    IN  [ k \in 1 .. Len(targets) |->
            [ from |-> sender.id,
              to |-> targets[k],
              type |-> type,
              payload |-> payload,
              progress |-> 0,
              speed |-> BroadcastSpeed(speed) ] ]

\* 1. Move packets
Advance(p) == [p EXCEPT !.progress = p.progress + p.speed * stride]

Moved(currentPackets) == [k \in 1 .. Len(currentPackets) |-> Advance(currentPackets[k])]

HasArrived(p) == p.progress >= ARRIVAL

HasNotArrived(p) == ~HasArrived(p)

ArrivedPackets(currentPackets) == SelectSeq(Moved(currentPackets), HasArrived)

SurvivingPackets(currentPackets) == SelectSeq(Moved(currentPackets), HasNotArrived)

\* 2. Process arrived packets.  The working state of the loop is
\* st = [nodes, votes, out, commits, arrived]: currentNodes, currentVotes, the
\* packets pushed onto survivingPackets so far, the record of the raises of a
\* leader's commitIndex, and the arrivedPackets the forEach has yet to visit.
Working(currentNodes, currentVotes, arrivedPackets) ==
    [nodes |-> currentNodes, votes |-> currentVotes, out |-> <<>>, commits |-> {},
     arrived |-> arrivedPackets]

\* variant: one granted vote is enough
VictoryByOneVote(voters) == Cardinality(voters) + 1 >= 2

\* Check for Victory: +1 for self.  size + 1 > NODE_COUNT / 2 over the reals.
Victory(voters) == 2 * (Cardinality(voters) + 1) > NODE_COUNT

\* variant: nextIndex and matchIndex are left as they were
BecomeLeaderKeepingIndexes(node) ==
    [node EXCEPT !.state = LEADER, !.heartbeatTimer = 0]

\* Initialize leader volatile state, for every node of the cluster
BecomeLeader(node) ==
    [node EXCEPT !.state = LEADER,
                 !.heartbeatTimer = 0,
                 !.nextIndex = [n \in NodeIds |-> Len(node.log)],
                 !.matchIndex = [n \in NodeIds |-> 0]]

\* variant: the winner keeps its tracker
handleVoteResponseKeepingVotes(st, packet) ==
    LET updatedNode == processVoteResponse(st.nodes[packet.to], packet).updatedNode
        counted ==
            /\ updatedNode.state = CANDIDATE
            /\ packet.payload.term = updatedNode.currentTerm
            /\ packet.payload.voteGranted
        voters == st.votes[updatedNode.id] \cup {packet.from}
    IN  IF ~counted
        THEN [st EXCEPT !.nodes[packet.to] = updatedNode]
        ELSE IF Victory(voters)
        THEN [st EXCEPT !.nodes[packet.to] = BecomeLeader(updatedNode),
                        !.votes[updatedNode.id] = voters]
        ELSE [st EXCEPT !.nodes[packet.to] = updatedNode,
                        !.votes[updatedNode.id] = voters]

handleVoteResponse(st, packet) ==
    LET updatedNode == processVoteResponse(st.nodes[packet.to], packet).updatedNode
        counted ==
            /\ updatedNode.state = CANDIDATE
            /\ packet.payload.term = updatedNode.currentTerm
            /\ packet.payload.voteGranted
        voters == st.votes[updatedNode.id] \cup {packet.from}
    IN  IF ~counted
        THEN [st EXCEPT !.nodes[packet.to] = updatedNode]
        ELSE IF Victory(voters)
        THEN [st EXCEPT !.nodes[packet.to] = BecomeLeader(updatedNode),
                        !.votes[updatedNode.id] = {}]
        ELSE [st EXCEPT !.nodes[packet.to] = updatedNode,
                        !.votes[updatedNode.id] = voters]

\* matchIndexes[Math.floor(NODE_COUNT / 2)] of the descending sort of
\* [log.length - 1, ...Object.values(matchIndex)]; NULL - 1 stands for undefined
MajorityN(node) ==
    LET matchIndexes == SortDesc(<<Len(node.log) - 1>> \o ObjectValues(node.matchIndex))
        rank == NODE_COUNT \div 2
    IN  IF rank + 1 <= Len(matchIndexes) THEN matchIndexes[rank + 1] ELSE NULL - 1

\* variant: the entry's term is not compared with currentTerm
LeaderCommitAnyTerm(node) ==
    LET majorityN == MajorityN(node)
    IN  IF majorityN > node.commitIndex /\ majorityN < Len(node.log)
        THEN majorityN
        ELSE node.commitIndex

\* Check commit index update
LeaderCommit(node) ==
    LET majorityN == MajorityN(node)
    IN  IF /\ majorityN > node.commitIndex
           /\ majorityN < Len(node.log)
           /\ At(node.log, majorityN).term = node.currentTerm
        THEN majorityN
        ELSE node.commitIndex

handleAppendResponse(targetNode, packet) ==
    LET payload == packet.payload
    IN  IF payload.term > targetNode.currentTerm
        THEN [targetNode EXCEPT !.state = FOLLOWER,
                                !.currentTerm = payload.term,
                                !.votedFor = NULL]
        ELSE IF targetNode.state = LEADER /\ payload.term = targetNode.currentTerm
        THEN IF payload.success
             THEN LET recorded ==
                        [targetNode EXCEPT
                            !.matchIndex = Put(targetNode.matchIndex, packet.from,
                                               payload.matchIndex),
                            !.nextIndex = Put(targetNode.nextIndex, packet.from,
                                              payload.matchIndex + 1)]
                  IN  [recorded EXCEPT !.commitIndex = LeaderCommit(recorded)]
             ELSE [targetNode EXCEPT
                      !.nextIndex = Put(targetNode.nextIndex, packet.from,
                                        Max(0, OrOne(targetNode.nextIndex, packet.from) - 1))]
        ELSE targetNode

\* variant: only an id that is no node's is skipped
DeliverableIfKnown(nodesList, packet) == packet.to \in DOMAIN nodesList

\* a packet to an id that is no node's, or to a crashed node, is skipped
Deliverable(nodesList, packet) ==
    /\ packet.to \in DOMAIN nodesList
    /\ nodesList[packet.to].state # CRASHED

\* the nodes of nodesList whose log holds at index an entry of term entryTerm
Holders(nodesList, index, entryTerm) ==
    { id \in NodeIds : /\ index >= 0
                       /\ index < Len(nodesList[id].log)
                       /\ At(nodesList[id].log, index).term = entryTerm }

\* history: the leader, its term, the index it raised commitIndex to, the
\* term of its entry there (NULL when it has none), and the nodes that hold
\* an entry of that term at the index when the leader raises it
CommitEvent(before, after, currentNodes) ==
    IF after.commitIndex > before.commitIndex
    THEN LET entryTerm == IF after.commitIndex < Len(after.log)
                          THEN At(after.log, after.commitIndex).term
                          ELSE NULL
         IN  { [ leader |-> after.id,
                 term |-> after.currentTerm,
                 index |-> after.commitIndex,
                 entryTerm |-> entryTerm,
                 holders |-> Holders(currentNodes, after.commitIndex, entryTerm) ] }
    ELSE {}

Dispatch(st, packet) ==
    IF ~Deliverable(st.nodes, packet) THEN st
    ELSE IF packet.type = REQUEST_VOTE
    THEN LET r == processRequestVote(st.nodes[packet.to], packet)
         IN  [st EXCEPT !.nodes[packet.to] = r.updatedNode,
                        !.out = Append(st.out, r.replyPacket)]
    ELSE IF packet.type = VOTE_RESPONSE
    THEN handleVoteResponse(st, packet)
    ELSE IF packet.type = APPEND_ENTRIES
    THEN LET r == processAppendEntries(st.nodes[packet.to], packet)
         IN  [st EXCEPT !.nodes[packet.to] = r.updatedNode,
                        !.out = Append(st.out, r.replyPacket)]
    ELSE IF packet.type = APPEND_RESPONSE
    THEN LET updated == handleAppendResponse(st.nodes[packet.to], packet)
         IN  [st EXCEPT !.nodes[packet.to] = updated,
                        !.commits = @ \cup CommitEvent(st.nodes[packet.to], updated, st.nodes)]
    ELSE st

RECURSIVE ProcessArrived(_)
ProcessArrived(st) ==
    IF st.arrived = <<>> THEN st
    ELSE ProcessArrived([Dispatch(st, Head(st.arrived)) EXCEPT !.arrived = Tail(st.arrived)])

\* 3. Node maintenance (timeouts, heartbeats), on currentNodes as the
\* packet processing left them

\* the live non-leaders whose election timer runs out in this step
TimedOut(currentNodes) ==
    { id \in NodeIds :
        /\ currentNodes[id].state # CRASHED
        /\ currentNodes[id].state # LEADER
        /\ currentNodes[id].electionTimeout - stride <= 0 }

\* Start Election; timeout is the value getRandomTimeout returns
StartElection(node, timeout) ==
    [node EXCEPT !.state = CANDIDATE,
                 !.currentTerm = node.currentTerm + 1,
                 !.votedFor = node.id,
                 !.currentTimeoutDuration = timeout,
                 !.electionTimeout = timeout]

RequestVotePayload(node) ==
    [ term |-> node.currentTerm,
      candidateId |-> node.id,
      lastLogIndex |-> LastLogIndex(node),
      lastLogTerm |-> LastLogTerm(node) ]

\* Election Timeout (Follower/Candidate)
AgeElection(node, draws) ==
    IF node.state = LEADER THEN node
    ELSE IF node.electionTimeout - stride <= 0
    THEN StartElection(node, draws[node.id])
    ELSE [node EXCEPT !.electionTimeout = node.electionTimeout - stride]

HeartbeatDue(node) == node.state = LEADER /\ node.heartbeatTimer - stride <= 0

\* Heartbeats (Leader)
AgeHeartbeat(node) ==
    IF node.state # LEADER THEN node
    ELSE IF HeartbeatDue(node)
    THEN [node EXCEPT !.heartbeatTimer = HEARTBEAT_INTERVAL]
    ELSE [node EXCEPT !.heartbeatTimer = node.heartbeatTimer - stride]

\* variant: the timers of a crashed node run on
MaintainedCrashedToo(node, draws) == AgeHeartbeat(AgeElection(node, draws))

Maintained(node, draws) ==
    IF node.state = CRASHED THEN node
    ELSE AgeHeartbeat(AgeElection(node, draws))

PrevLogIndex(leader, peerId) == OrOne(leader.nextIndex, peerId) - 1

PrevLogTerm(leader, prevLogIndex) ==
    IF prevLogIndex >= 0 /\ prevLogIndex < Len(leader.log)
    THEN At(leader.log, prevLogIndex).term
    ELSE -1

AppendEntriesPayload(leader, peerId) ==
    LET prevLogIndex == PrevLogIndex(leader, peerId)
    IN  [ term |-> leader.currentTerm,
          leaderId |-> leader.id,
          prevLogIndex |-> prevLogIndex,
          prevLogTerm |-> PrevLogTerm(leader, prevLogIndex),
          entries |-> Slice(leader.log, prevLogIndex + 1),
          leaderCommit |-> leader.commitIndex ]

\* Send AppendEntries to all
HeartbeatPackets(leader, currentNodes, speed) ==
    LET live(id) == id # leader.id /\ currentNodes[id].state # CRASHED
        peers == SelectSeq(IdSeq, live)
    IN  [ k \in 1 .. Len(peers) |->
            [ from |-> leader.id,
              to |-> peers[k],
              type |-> APPEND_ENTRIES,
              payload |-> AppendEntriesPayload(leader, peers[k]),
              progress |-> 0,
              speed |-> BroadcastSpeed(speed) ] ]

\* the packets node pushes during its maintenance
PacketsOf(node, currentNodes, draws, speed) ==
    IF node.state = CRASHED THEN <<>>
    ELSE IF node.id \in TimedOut(currentNodes)
    THEN LET candidate == AgeElection(node, draws)
         IN  broadcast(candidate, REQUEST_VOTE, RequestVotePayload(candidate),
                       currentNodes, speed)
    ELSE IF HeartbeatDue(node)
    THEN HeartbeatPackets(node, currentNodes, speed)
    ELSE <<>>

RECURSIVE MaintenancePackets(_, _, _, _)
MaintenancePackets(k, currentNodes, draws, speed) ==
    IF k >= NODE_COUNT THEN <<>>
    ELSE PacketsOf(currentNodes[k], currentNodes, draws, speed)
            \o MaintenancePackets(k + 1, currentNodes, draws, speed)

\* the tick with the values drawn by getRandomTimeout given
TickResult(currentNodes, currentPackets, currentVotes, draws, speed) ==
    LET st == ProcessArrived(Working(currentNodes, currentVotes,
                                     ArrivedPackets(currentPackets)))
    IN  [ commits |-> st.commits,
          nodes |-> [id \in NodeIds |-> Maintained(st.nodes[id], draws)],
          packets |-> SurvivingPackets(currentPackets) \o st.out
                        \o MaintenancePackets(0, st.nodes, draws, speed),
          votes |-> [id \in NodeIds |->
                        IF id \in TimedOut(st.nodes) THEN {} ELSE st.votes[id]] ]

\* the nodes that start an election in the coming tick
Electing ==
    TimedOut(ProcessArrived(Working(nodes, votesReceived, ArrivedPackets(packets))).nodes)

\* history: the granted VoteResponses among the packets created in a tick
GrantsIn(newPackets) ==
    { <<newPackets[k].from, newPackets[k].payload.term, newPackets[k].to>> :
        k \in { j \in 1 .. Len(newPackets) :
                  /\ newPackets[j].type = VOTE_RESPONSE
                  /\ newPackets[j].progress = 0
                  /\ newPackets[j].payload.voteGranted } }

LeadersOf(nodesList) ==
    { <<nodesList[id].currentTerm, id>> : id \in { i \in NodeIds : nodesList[i].state = LEADER } }

-----------------------------------------------------------------------------
(* Operations *)

\* variant: a candidate is found as well
FindLeaderOrCandidate(nodesList) ==
    LET leaders == { id \in NodeIds : nodesList[id].state \in {LEADER, CANDIDATE} }
    IN  IF leaders = {} THEN NULL
        ELSE CHOOSE id \in leaders : \A other \in leaders : id <= other

\* newNodes.find(n => n.state === NodeState.LEADER): the first leader, or NULL
FindLeader(nodesList) ==
    LET leaders == { id \in NodeIds : nodesList[id].state = LEADER }
    IN  IF leaders = {} THEN NULL
        ELSE CHOOSE id \in leaders : \A other \in leaders : id <= other

\* The operator.  In a free session toggleNodeState and proposeLog are called
\* at any time, MaxToggles crashes and revivals in all.  In a scripted session
\* the calls are those of Script in this order, each made as soon as the
\* cluster shows what the operator waits for, before the next tick.
Script ==
    << [op |-> "toggle", id |-> 1],     \* crash node 1 before the first tick
       [op |-> "propose", id |-> 0],    \* an entry for leader 0
       [op |-> "toggle", id |-> 0],     \* crash leader 0
       [op |-> "toggle", id |-> 1],     \* revive node 1
       [op |-> "propose", id |-> 1],    \* an entry for leader 1
       [op |-> "toggle", id |-> 0],     \* revive node 0
       [op |-> "propose", id |-> 1],    \* a second entry for leader 1
       [op |-> "toggle", id |-> 1],     \* crash leader 1
       [op |-> "propose", id |-> 0],    \* a second entry for leader 0
       [op |-> "toggle", id |-> 1] >>   \* revive node 1

\* what the operator waits for before step k: the leader on display, the log
\* lengths of nodes 0 and 1, and their commit indices (commit: the values at
\* which the call is made; hold: those at which it may also be put off for
\* another tick)
Uncommitted == {<<-1, -1>>}
Committing == {<<-1, -1>>, <<-1, 0>>, <<0, 0>>}

Awaited ==
    << [leader |-> NULL, len |-> <<0, 0>>, commit |-> Uncommitted, hold |-> {}],
       [leader |-> 0,    len |-> <<0, 0>>, commit |-> Uncommitted, hold |-> {}],
       [leader |-> 0,    len |-> <<1, 0>>, commit |-> Uncommitted, hold |-> {}],
       [leader |-> NULL, len |-> <<1, 0>>, commit |-> Uncommitted, hold |-> {}],
       [leader |-> 1,    len |-> <<1, 0>>, commit |-> Uncommitted, hold |-> {}],
       [leader |-> 1,    len |-> <<1, 1>>, commit |-> Uncommitted, hold |-> {}],
       [leader |-> 1,    len |-> <<1, 1>>, commit |-> Committing,
                                           hold |-> {<<-1, -1>>, <<-1, 0>>}],
       [leader |-> 1,    len |-> <<1, 2>>, commit |-> Committing, hold |-> {}],
       [leader |-> 0,    len |-> <<1, 2>>, commit |-> Committing, hold |-> {}],
       [leader |-> 0,    len |-> <<2, 2>>, commit |-> Committing, hold |-> {}] >>

Displayed ==
    [ leader |-> FindLeader(nodes),
      len |-> <<Len(nodes[0].log), Len(nodes[1].log)>>,
      commit |-> <<nodes[0].commitIndex, nodes[1].commitIndex>> ]

\* A second scripted session, in which three nodes become Leader of term 1
\* one after the other and each takes an entry of its own at index 0: node 1
\* keeps a second entry of term 1, Leader 0 of term 2 takes two entries of
\* term 2 and commits the one at index 1, and node 1 is then elected for
\* term 3.
OverwriteScript ==
    << [op |-> "toggle", id |-> 1],     \* crash node 1 before the first tick
       [op |-> "toggle", id |-> 2],     \* crash node 2 before the first tick
       [op |-> "propose", id |-> 0],    \* an entry for leader 0
       [op |-> "toggle", id |-> 0],     \* crash leader 0
       [op |-> "toggle", id |-> 1],     \* revive node 1
       [op |-> "propose", id |-> 1],    \* an entry for leader 1
       [op |-> "propose", id |-> 1],    \* a second entry for leader 1
       [op |-> "toggle", id |-> 1],     \* crash leader 1
       [op |-> "toggle", id |-> 2],     \* revive node 2
       [op |-> "propose", id |-> 2],    \* an entry for leader 2
       [op |-> "toggle", id |-> 2],     \* crash leader 2
       [op |-> "toggle", id |-> 0],     \* revive node 0
       [op |-> "toggle", id |-> 2],     \* revive node 2
       [op |-> "toggle", id |-> 1],     \* revive node 1
       [op |-> "toggle", id |-> 1],     \* crash node 1
       [op |-> "propose", id |-> 0],    \* a second entry for leader 0
       [op |-> "propose", id |-> 0],    \* a third entry for leader 0
       [op |-> "toggle", id |-> 0],     \* crash leader 0
       [op |-> "toggle", id |-> 2],     \* crash node 2
       [op |-> "toggle", id |-> 1],     \* revive node 1
       [op |-> "toggle", id |-> 0] >>   \* revive node 0

\* the calls of both sessions; the operator of the first rests at its end
Steps == Script \o << [op |-> "rest", id |-> NULL] >> \o OverwriteScript

OverwriteStart == Len(Script) + 2

\* nodes 3 and 4 have had their votes cleared by a heartbeat
VotersFree == \A id \in {3, 4} : nodes[id].votedFor = NULL

LeaderOfTerm(id, term) ==
    FindLeader(nodes) = id /\ nodes[id].currentTerm = term

\* what the operator waits for before step k of OverwriteScript
OverwriteAwaited(k) ==
    CASE k = 3  -> LeaderOfTerm(0, 1)
      [] k = 4  -> LeaderOfTerm(0, 1) /\ VotersFree
      [] k = 6  -> LeaderOfTerm(1, 1)
      [] k = 8  -> LeaderOfTerm(1, 1) /\ VotersFree
      [] k = 10 -> LeaderOfTerm(2, 1)
      [] k = 13 -> LeaderOfTerm(0, 2)
      [] k = 15 -> LeaderOfTerm(0, 2) /\ nodes[0].matchIndex[1] = 1
      [] k = 18 -> LeaderOfTerm(0, 2) /\ nodes[0].commitIndex = 1
      [] k = 21 -> LeaderOfTerm(1, 3)
      [] OTHER  -> TRUE

\* the operator can make the next call of OverwriteScript
OverwriteReady ==
    /\ scriptPos \in OverwriteStart .. Len(Steps)
    /\ OverwriteAwaited(scriptPos - OverwriteStart + 1)

\* no election is started by a node whose term has reached TermBound: the
\* second session runs one term further than the others
TermBound == IF scriptPos > OverwriteStart THEN MaxTerm + 1 ELSE MaxTerm

\* proposeLog is not called for a leader whose log has reached LogBound: the
\* second session takes one entry more than the others
LogBound == IF scriptPos > OverwriteStart THEN MaxLogLen + 1 ELSE MaxLogLen

\* the operator can make the next call of Script
ScriptReady ==
    \/ /\ scriptPos \in 1 .. Len(Script)
       /\ Displayed.leader = Awaited[scriptPos].leader
       /\ Displayed.len = Awaited[scriptPos].len
       /\ Displayed.commit \in Awaited[scriptPos].commit
    \/ OverwriteReady

\* the operator makes it before the next tick
ScriptDue ==
    \/ /\ scriptPos \in 1 .. Len(Script)
       /\ ScriptReady
       /\ Displayed.commit \notin Awaited[scriptPos].hold
    \/ OverwriteReady

\* the watch after a Tick step, and after a call of the operator
WatchTicked == IF watch = NULL THEN NULL ELSE Min(watch + 1, MaxWatch)

WatchReset == IF watch = NULL THEN NULL ELSE 0

Tick ==
    /\ ~ScriptDue
    /\ \A id \in Electing : nodes[id].currentTerm < TermBound
    /\ \E draws \in [Electing -> TimeoutChoices] :
         LET r == TickResult(nodes, packets, votesReceived, draws, playbackSpeed)
         IN  /\ nodes' = r.nodes
             /\ packets' = r.packets
             /\ votesReceived' = r.votes
             /\ everLeader' = everLeader \cup LeadersOf(r.nodes)
             /\ leaderCommits' = leaderCommits \cup r.commits
             /\ grantedVotes' = grantedVotes \cup GrantsIn(r.packets)
    /\ watch' = WatchTicked
    /\ UNCHANGED <<playbackSpeed, toggles, scriptPos, stride>>

\* variant: a revived node has forgotten its vote
ToggledForgetful(nodesList, id, timeout) ==
    IF id \notin DOMAIN nodesList THEN nodesList
    ELSE IF nodesList[id].state = CRASHED
    THEN [nodesList EXCEPT ![id].state = FOLLOWER, ![id].electionTimeout = timeout,
                           ![id].votedFor = NULL]
    ELSE [nodesList EXCEPT ![id].state = CRASHED]

\* toggleNodeState(id); timeout is the value getRandomTimeout returns
Toggled(nodesList, id, timeout) ==
    IF id \notin DOMAIN nodesList THEN nodesList
    ELSE IF nodesList[id].state = CRASHED
    THEN [nodesList EXCEPT ![id].state = FOLLOWER, ![id].electionTimeout = timeout]
    ELSE [nodesList EXCEPT ![id].state = CRASHED]

ToggleNodeState(id) ==
    /\ \/ scriptPos = 0 /\ id \in ToggleIds /\ (id \in DOMAIN nodes => toggles < MaxToggles)
       \/ ScriptReady /\ Steps[scriptPos] = [op |-> "toggle", id |-> id]
    /\ \E timeout \in TimeoutChoices : nodes' = Toggled(nodes, id, timeout)
    /\ toggles' = IF scriptPos = 0 /\ id \in DOMAIN nodes THEN toggles + 1 ELSE toggles
    /\ scriptPos' = IF scriptPos = 0 THEN 0 ELSE scriptPos + 1
    /\ watch' = WatchReset
    /\ UNCHANGED <<packets, votesReceived, playbackSpeed, everLeader, leaderCommits,
                   grantedVotes, stride>>

\* variant: the new entry takes the place of the leader's last entry
ProposedOverLast(nodesList, cmd) ==
    LET leader == FindLeader(nodesList)
    IN  IF leader = NULL THEN nodesList
        ELSE [nodesList EXCEPT
                ![leader].log =
                    Append(SubSeq(nodesList[leader].log, 1, Len(nodesList[leader].log) - 1),
                           [term |-> nodesList[leader].currentTerm, command |-> cmd])]

Proposed(nodesList, cmd) ==
    LET leader == FindLeader(nodesList)
    IN  IF leader = NULL THEN nodesList
        ELSE [nodesList EXCEPT
                ![leader].log = Append(nodesList[leader].log,
                                       [term |-> nodesList[leader].currentTerm,
                                        command |-> cmd])]

\* the else branch: alert("No Leader elected to propose entry!")
Alerted(nodesList) == FindLeader(nodesList) = NULL

ProposeLog ==
    /\ \/ scriptPos = 0
       \/ ScriptReady /\ Steps[scriptPos].op = "propose"
    /\ FindLeader(nodes) # NULL => Len(nodes[FindLeader(nodes)].log) < LogBound
    /\ \E cmd \in CommandChoices : nodes' = Proposed(nodes, cmd)
    /\ scriptPos' = IF scriptPos = 0 THEN 0 ELSE scriptPos + 1
    /\ watch' = WatchReset
    /\ UNCHANGED <<packets, votesReceived, playbackSpeed, everLeader, leaderCommits,
                   grantedVotes, toggles, stride>>

SetPlaybackSpeed(speed) ==
    /\ scriptPos = 0
    /\ playbackSpeed' = speed
    /\ UNCHANGED <<nodes, packets, votesReceived, everLeader, leaderCommits, grantedVotes,
                   toggles, scriptPos, watch, stride>>

-----------------------------------------------------------------------------
(* Specification *)

\* the timeouts createNode is taken to draw, <<electionTimeout,
\* currentTimeoutDuration>> per node: node 0 is the first to time out
InitDraws ==
    { d \in [NodeIds -> TimeoutChoices \X TimeoutChoices] :
        /\ d[0][1] = MIN_ELECTION_TIMEOUT
        /\ \A id \in NodeIds \ {0} : d[id] = <<MAX_ELECTION_TIMEOUT, MAX_ELECTION_TIMEOUT>> }

\* the state after the initializing effect
Constructed(d) ==
    /\ nodes = [id \in NodeIds |-> createNode(id, d[id][1], d[id][2])]
    /\ packets = <<>>
    /\ votesReceived = [id \in NodeIds |-> {}]
    /\ playbackSpeed = 2
    /\ everLeader = {}
    /\ leaderCommits = {}
    /\ grantedVotes = {}
    /\ toggles = 0

\* a free session or a scripted one
Init ==
    /\ \E d \in InitDraws : Constructed(d)
    /\ scriptPos \in {0, 1}
    /\ watch = NULL
    /\ stride = TickStride

\* the slider stays where it is in these runs; NextSlider moves it
Next ==
    \/ Tick
    \/ \E id \in ToggleIds : ToggleNodeState(id)
    \/ ProposeLog

Spec == Init /\ [][Next]_vars

\* The runs in which the operator only moves the speed slider.
NextSlider ==
    \/ Tick
    \/ \E speed \in SpeedChoices : SetPlaybackSpeed(speed)

InitSlider ==
    /\ \E d \in InitDraws : Constructed(d)
    /\ scriptPos = 0
    /\ watch = NULL
    /\ stride = SliderStride

SpecSlider == InitSlider /\ [][NextSlider]_vars

\* The runs that deliver one AppendEntries packet twice in a tick: node 1 in
\* any of ReceiverStates receives two copies of a packet with any of
\* AppendPayloads.
EntriesUpTo(n, cmd) ==
    UNION { [1 .. k -> [term : 1 .. MaxTerm, command : {cmd}]] : k \in 0 .. n }

ReceiverStates ==
    { [createNode(1, MAX_ELECTION_TIMEOUT, MAX_ELECTION_TIMEOUT) EXCEPT
          !.state = role, !.currentTerm = term, !.log = log, !.commitIndex = commit] :
        role \in {FOLLOWER, CANDIDATE, LEADER},
        term \in 1 .. MaxTerm,
        log \in EntriesUpTo(MaxLogLen, "SET X=5"),
        commit \in -1 .. (MaxLogLen - 1) }

AppendPayloads ==
    [ term : 1 .. MaxTerm,
      leaderId : {0},
      prevLogIndex : -1 .. (MaxLogLen - 1),
      prevLogTerm : {-1} \cup (1 .. MaxTerm),
      entries : EntriesUpTo(MaxLogLen, "ADD USER"),
      leaderCommit : -1 .. MaxLogLen ]

InitRedelivery ==
    \E receiver \in ReceiverStates : \E payload \in AppendPayloads :
        LET copy == [ from |-> 0, to |-> 1, type |-> APPEND_ENTRIES, payload |-> payload,
                      progress |-> 0, speed |-> BroadcastSpeed(2) ]
        IN  /\ receiver.commitIndex < Len(receiver.log)
            /\ payload.prevLogIndex = -1 <=> payload.prevLogTerm = -1
            /\ nodes = [id \in NodeIds |->
                          IF id = 1 THEN receiver
                          ELSE [createNode(id, MAX_ELECTION_TIMEOUT, MAX_ELECTION_TIMEOUT)
                                   EXCEPT !.state = CRASHED]]
            /\ packets = <<copy, copy>>
            /\ votesReceived = [id \in NodeIds |-> {}]
            /\ playbackSpeed = 2
            /\ everLeader = {}
            /\ leaderCommits = {}
            /\ grantedVotes = {}
            /\ toggles = 0
            /\ scriptPos = 0
            /\ watch = NULL
            /\ stride = TickStride

SpecRedelivery == InitRedelivery /\ [][Tick]_vars

\* The runs that deliver one RequestVote packet: node 1 in any of VoterStates
\* receives a packet with any of VotePayloads from candidate 0 or 2.
VoterStates ==
    { [createNode(1, MAX_ELECTION_TIMEOUT, MAX_ELECTION_TIMEOUT) EXCEPT
          !.state = role, !.currentTerm = term, !.votedFor = vote, !.log = log,
          !.electionTimeout = timeout] :
        role \in {FOLLOWER, CANDIDATE, LEADER},
        term \in 0 .. MaxTerm,
        vote \in {NULL, 0, 2},
        log \in EntriesUpTo(MaxLogLen, "SET X=5"),
        timeout \in {MAX_ELECTION_TIMEOUT - TickStride} }

VotePayloads ==
    [ term : 0 .. MaxTerm,
      candidateId : {0, 2},
      lastLogIndex : -1 .. (MaxLogLen - 1),
      lastLogTerm : {-1} \cup (1 .. MaxTerm) ]

InitRequestVote ==
    \E voter \in VoterStates : \E payload \in VotePayloads :
        /\ payload.lastLogIndex = -1 <=> payload.lastLogTerm = -1
        /\ nodes = [id \in NodeIds |->
                      IF id = 1 THEN voter
                      ELSE [createNode(id, MAX_ELECTION_TIMEOUT, MAX_ELECTION_TIMEOUT)
                               EXCEPT !.state = CRASHED]]
        /\ packets = << [ from |-> payload.candidateId, to |-> 1, type |-> REQUEST_VOTE,
                          payload |-> payload, progress |-> 0,
                          speed |-> BroadcastSpeed(2) ] >>
        /\ votesReceived = [id \in NodeIds |-> {}]
        /\ playbackSpeed = 2
        /\ everLeader = {}
        /\ leaderCommits = {}
        /\ grantedVotes = {}
        /\ toggles = 0
        /\ scriptPos = 0
        /\ watch = NULL
        /\ stride = TickStride

SpecRequestVote == InitRequestVote /\ [][Tick]_vars

\* The crash-free runs without proposals, timed from construction:
\* createNode draws any timeouts, and setInterval calls tick again and again.
ElectionDraws == [NodeIds -> TimeoutChoices \X TimeoutChoices]

InitElection ==
    /\ \E d \in ElectionDraws : Constructed(d)
    /\ scriptPos = 0
    /\ watch = 0
    /\ stride = TickStride

SpecElection == InitElection /\ [][Tick]_vars

\* The crash-free runs with proposals, timed from the last proposeLog.
InitReplication ==
    /\ \E d \in InitDraws : Constructed(d)
    /\ scriptPos = 0
    /\ watch = 0
    /\ stride = TickStride

NextReplication ==
    \/ Tick
    \/ ProposeLog

SpecReplication == InitReplication /\ [][NextReplication]_vars

\* The runs in which the operator crashes and revives node 0 and proposes,
\* timed from the last call: node 0 is the first to time out, and node 1 is
\* the first of the others to time out again, having drawn the shorter
\* currentTimeoutDuration.
RecoveryDraws ==
    { d \in [NodeIds -> TimeoutChoices \X TimeoutChoices] :
        /\ d[0] = <<MIN_ELECTION_TIMEOUT, MAX_ELECTION_TIMEOUT>>
        /\ d[1] = <<MAX_ELECTION_TIMEOUT, MIN_ELECTION_TIMEOUT>>
        /\ \A id \in NodeIds \ {0, 1} : d[id] = <<MAX_ELECTION_TIMEOUT, MAX_ELECTION_TIMEOUT>> }

InitRecovery ==
    /\ \E d \in RecoveryDraws : Constructed(d)
    /\ scriptPos = 0
    /\ watch = 0
    /\ stride = TickStride

NextRecovery ==
    \/ Tick
    \/ ToggleNodeState(0)
    \/ ProposeLog

SpecRecovery == InitRecovery /\ [][NextRecovery]_vars

\* The runs that deliver one packet of any type: node 1 in any of
\* ReceiverRoles, with the tracker of a Candidate empty or holding a vote,
\* receives from node 0 a packet with any of the payloads of its type, of a
\* term below, at or above its own.
\* a Candidate or Leader has started an election and voted for itself; no
\* entry is of a later term than its holder's; a node of term 0 has no vote
ReceiverRoles ==
    { receiver \in
        { IF role = LEADER
          THEN [BecomeLeader(node) EXCEPT !.heartbeatTimer = HEARTBEAT_INTERVAL]
          ELSE [node EXCEPT !.state = role] :
            role \in {FOLLOWER, CANDIDATE, LEADER},
            node \in { [createNode(1, MAX_ELECTION_TIMEOUT, MAX_ELECTION_TIMEOUT) EXCEPT
                          !.currentTerm = term, !.votedFor = vote, !.log = log] :
                        term \in 0 .. MaxTerm,
                        vote \in {NULL, 0, 1},
                        log \in EntriesUpTo(1, "SET X=5") } } :
        /\ receiver.state # FOLLOWER => receiver.votedFor = 1 /\ receiver.currentTerm >= 1
        /\ receiver.currentTerm = 0 => receiver.votedFor = NULL
        /\ \A i \in 1 .. Len(receiver.log) : receiver.log[i].term <= receiver.currentTerm }

VoteResponsePayloads == [ term : 0 .. MaxTerm, voteGranted : BOOLEAN ]

AppendResponsePayloads == [ term : 0 .. MaxTerm, success : BOOLEAN, matchIndex : -1 .. 0 ]

PacketsOfAnyType ==
    LET packet(type, payload) ==
            [ from |-> 0, to |-> 1, type |-> type, payload |-> payload,
              progress |-> 0, speed |-> BroadcastSpeed(2) ]
    IN  { packet(REQUEST_VOTE, payload) :
            payload \in { v \in VotePayloads :
                            /\ v.candidateId = 0
                            /\ v.lastLogIndex = -1 <=> v.lastLogTerm = -1 } }
        \cup { packet(VOTE_RESPONSE, payload) : payload \in VoteResponsePayloads }
        \cup { packet(APPEND_ENTRIES, payload) :
                 payload \in { a \in AppendPayloads :
                                 /\ a.prevLogIndex = -1 <=> a.prevLogTerm = -1
                                 /\ a.prevLogIndex <= 0
                                 /\ Len(a.entries) <= 1
                                 /\ a.leaderCommit <= 0 } }
        \cup { packet(APPEND_RESPONSE, payload) : payload \in AppendResponsePayloads }

InitAnyPacket ==
    \E receiver \in ReceiverRoles : \E packet \in PacketsOfAnyType :
    \E votes \in {{}, {2}} :
        /\ votes # {} => receiver.state = CANDIDATE
        /\ nodes = [id \in NodeIds |->
                      IF id = 1 THEN receiver
                      ELSE [createNode(id, MAX_ELECTION_TIMEOUT, MAX_ELECTION_TIMEOUT)
                               EXCEPT !.state = CRASHED]]
        /\ packets = <<packet>>
        /\ votesReceived = [id \in NodeIds |-> IF id = 1 THEN votes ELSE {}]
        /\ playbackSpeed = 2
        /\ everLeader = {}
        /\ leaderCommits = {}
        /\ grantedVotes = {}
        /\ toggles = 0
        /\ scriptPos = 0
        /\ watch = 0
        /\ stride = TickStride

SpecAnyPacket == InitAnyPacket /\ [][Tick]_vars

\* The runs of the second scripted session.
InitOverwrite ==
    /\ \E d \in InitDraws : Constructed(d)
    /\ scriptPos = OverwriteStart
    /\ watch = NULL
    /\ stride = TickStride

NextOverwrite ==
    \/ Tick
    \/ \E id \in 0 .. 2 : ToggleNodeState(id)
    \/ ProposeLog

SpecOverwrite == InitOverwrite /\ [][NextOverwrite]_vars

-----------------------------------------------------------------------------
(* Properties *)

\* the packets of the in-flight list that the coming tick delivers
Arriving == { k \in 1 .. Len(packets) : HasArrived(Advance(packets[k])) }

IsPrefix(s, t) == Len(s) <= Len(t) /\ SubSeq(t, 1, Len(s)) = s

\* C1  Election Safety: for any term T at most one node is or has ever been
\* Leader with currentTerm = T.
ElectionSafety ==
    \A a \in everLeader \cup LeadersOf(nodes) :
        \A b \in everLeader \cup LeadersOf(nodes) : a[1] = b[1] => a[2] = b[2]

\* C2  Term monotonicity: in every step (tick, toggleNodeState, proposeLog)
\* every node's currentTerm after the step is at least its currentTerm before.
TermMonotonic ==
    [][\A id \in NodeIds : nodes'[id].currentTerm >= nodes[id].currentTerm]_vars

\* a RequestVote or VoteResponse of an older term is delivered to a live node
TermMonotonicWitness ==
    \E k \in Arriving :
        /\ packets[k].type \in {REQUEST_VOTE, VOTE_RESPONSE}
        /\ nodes[packets[k].to].state # CRASHED
        /\ packets[k].payload.term < nodes[packets[k].to].currentTerm

\* C3  Log Matching: two logs that hold an entry of the same term at the same
\* index are identical, term and command, up to that index.
LogMatching ==
    \A a \in NodeIds : \A b \in NodeIds :
        \A i \in 1 .. Min(Len(nodes[a].log), Len(nodes[b].log)) :
            nodes[a].log[i].term = nodes[b].log[i].term
                => SubSeq(nodes[a].log, 1, i) = SubSeq(nodes[b].log, 1, i)

\* C4  Leader Append-Only: the log of a node that is Leader before and after
\* a step is extended only; a log loses or changes an entry only in a tick
\* that delivers AppendEntries to its node, and the node ends that tick as
\* Follower.
LeaderAppendOnly ==
    [][\A id \in NodeIds :
          /\ nodes[id].state = LEADER /\ nodes'[id].state = LEADER
                => IsPrefix(nodes[id].log, nodes'[id].log)
          /\ ~IsPrefix(nodes[id].log, nodes'[id].log)
                => /\ nodes'[id].state = FOLLOWER
                   /\ nodes[id].state # CRASHED
                   /\ \E k \in Arriving : /\ packets[k].type = APPEND_ENTRIES
                                           /\ packets[k].to = id]_vars

\* a leader with entries sends AppendEntries whose first entry meets an entry
\* of another term in the log of its live receiver
LeaderAppendOnlyWitness ==
    \E k \in Arriving :
        LET p == packets[k].payload
            receiver == nodes[packets[k].to]
        IN  /\ packets[k].type = APPEND_ENTRIES
            /\ receiver.state # CRASHED
            /\ nodes[packets[k].from].state = LEADER
            /\ nodes[packets[k].from].log # <<>>
            /\ p.entries # <<>>
            /\ p.term >= receiver.currentTerm
            /\ LogOk(receiver.log, p.prevLogIndex, p.prevLogTerm)
            /\ p.prevLogIndex + 1 < Len(receiver.log)
            /\ At(receiver.log, p.prevLogIndex + 1).term # Head(p.entries).term

Redelivered(node, packet) ==
    processAppendEntries(processAppendEntries(node, packet).updatedNode, packet).updatedNode

RedeliveryIdempotent ==
    [][\A k \in Arriving :
          packets[k].type = APPEND_ENTRIES /\ nodes[packets[k].to].state # CRASHED
            => LET once == processAppendEntries(nodes[packets[k].to], packets[k]).updatedNode
                   twice == Redelivered(nodes[packets[k].to], packets[k])
               IN  /\ twice.log = once.log
                   /\ twice.commitIndex = once.commitIndex
                   /\ packets = <<packets[k], packets[k]>>
                        => /\ nodes'[packets[k].to].log = once.log
                           /\ nodes'[packets[k].to].commitIndex = once.commitIndex]_vars

\* two copies of a packet have been delivered, both with success, and the
\* receiver holds an entry of the packet and has committed
RedeliveryWitness ==
    /\ Len(packets) = 2
    /\ packets[1] = packets[2]
    /\ packets[1].type = APPEND_RESPONSE
    /\ packets[1].payload.success
    /\ \E i \in 1 .. Len(nodes[packets[1].from].log) :
          nodes[packets[1].from].log[i].command = "ADD USER"
    /\ nodes[packets[1].from].commitIndex >= 0

\* C7  Crashed nodes are frozen: a node that is Crashed when a tick starts
\* has all its fields unchanged when the tick ends, and no packet created in
\* the tick has it as sender.
CrashedFrozen ==
    [][Tick => \A id \in NodeIds :
                 nodes[id].state = CRASHED
                    => /\ nodes'[id] = nodes[id]
                       /\ \A j \in 1 .. Len(packets') :
                             packets'[j].progress = 0 => packets'[j].from # id]_vars

\* AppendEntries arrives for a crashed node whose election timer is running
CrashedFrozenWitness ==
    \E k \in Arriving :
        /\ nodes[packets[k].to].state = CRASHED
        /\ nodes[packets[k].to].electionTimeout > 0
        /\ packets[k].type = APPEND_ENTRIES

\* C8  Invalid target is a silent drop: a packet that arrives for an id that
\* is no node's or for a crashed node leaves the in-flight list, and the tick
\* ends as it does without the packet: no reply, no change of a node or of a
\* vote tracker.
SilentDrop ==
    LET draws == [id \in NodeIds |-> MAX_ELECTION_TIMEOUT]
        Dropped(p) ==
            /\ HasArrived(Advance(p))
            /\ p.to \notin DOMAIN nodes \/ nodes[p.to].state = CRASHED
        Kept(p) == ~Dropped(p)
        Stray(p) == [p EXCEPT !.to = NODE_COUNT]
        result == TickResult(nodes, packets, votesReceived, draws, playbackSpeed)
    IN  /\ result = TickResult(nodes, SelectSeq(packets, Kept), votesReceived, draws,
                               playbackSpeed)
        /\ \A j \in 1 .. Len(result.packets) : result.packets[j].progress < ARRIVAL
        /\ \A k \in Arriving :
              /\ Dispatch(Working(nodes, votesReceived, <<>>), Stray(Advance(packets[k])))
                    = Working(nodes, votesReceived, <<>>)
              /\ TickResult(nodes, <<Stray(packets[k])>>, votesReceived, draws, playbackSpeed)
                    = TickResult(nodes, <<>>, votesReceived, draws, playbackSpeed)

\* a RequestVote packet arrives for a crashed node
SilentDropWitness ==
    \E k \in Arriving :
        /\ nodes[packets[k].to].state = CRASHED
        /\ packets[k].type = REQUEST_VOTE

\* C9  proposeLog frame: with a Leader, proposeLog appends one entry of that
\* Leader's currentTerm to the log of one Leader and changes nothing else;
\* with no Leader it changes no node, packet or vote tracker and alerts.
ProposeFrame ==
    [][/\ (\A id \in NodeIds : nodes[id].state # LEADER)
            => /\ Alerted(nodes)
               /\ \A cmd \in CommandChoices : Proposed(nodes, cmd) = nodes
       /\ ProposeLog /\ (\E id \in NodeIds : nodes[id].state = LEADER)
            => /\ ~Alerted(nodes)
               /\ \E id \in NodeIds : \E cmd \in CommandChoices :
                     /\ nodes[id].state = LEADER
                     /\ nodes' = [nodes EXCEPT
                                    ![id].log = Append(nodes[id].log,
                                                       [term |-> nodes[id].currentTerm,
                                                        command |-> cmd])]
               /\ packets' = packets
               /\ votesReceived' = votesReceived]_vars

\* a Leader holds an entry of its term while a candidate of a later term is
\* campaigning
ProposeFrameWitness ==
    \E id \in NodeIds : \E other \in NodeIds :
        /\ nodes[id].state = LEADER
        /\ nodes[id].log # <<>>
        /\ nodes[id].log[Len(nodes[id].log)].term = nodes[id].currentTerm
        /\ nodes[other].state = CANDIDATE

\* C10  toggleNodeState frame: an unknown id changes nothing; a crash changes
\* only the node's state; a revival sets state to Follower and
\* electionTimeout to a value in [150, 300] and keeps every other field; no
\* other node and no packet changes.
ToggleFrame ==
    [][/\ \A timeout \in TimeoutChoices : Toggled(nodes, NODE_COUNT, timeout) = nodes
       /\ \A id \in NodeIds :
             ToggleNodeState(id)
                => /\ packets' = packets
                   /\ votesReceived' = votesReceived
                   /\ \A other \in NodeIds \ {id} : nodes'[other] = nodes[other]
                   /\ IF nodes[id].state = CRASHED
                      THEN /\ nodes'[id].electionTimeout \in
                                MIN_ELECTION_TIMEOUT .. MAX_ELECTION_TIMEOUT
                           /\ nodes'[id] =
                                [nodes[id] EXCEPT
                                    !.state = FOLLOWER,
                                    !.electionTimeout = nodes'[id].electionTimeout]
                      ELSE nodes'[id] = [nodes[id] EXCEPT !.state = CRASHED]]_vars

\* a node that has voted and holds an entry is crashed, and packets are in flight
ToggleFrameWitness ==
    \E id \in NodeIds :
        /\ nodes[id].state = CRASHED
        /\ nodes[id].votedFor # NULL
        /\ nodes[id].log # <<>>
        /\ packets # <<>>

\* one Leader, and every other node a Follower of the Leader's term
Stable ==
    \E leader \in NodeIds :
        /\ nodes[leader].state = LEADER
        /\ \A other \in NodeIds \ {leader} :
              /\ nodes[other].state = FOLLOWER
              /\ nodes[other].currentTerm = nodes[leader].currentTerm

\* the coming tick starts an election beyond MaxTerm
Exhausted == \E id \in Electing : nodes[id].currentTerm >= MaxTerm

FollowersRecordLeader ==
    \A leader \in NodeIds :
        /\ nodes[leader].state = LEADER
        /\ \A other \in NodeIds \ {leader} :
              /\ nodes[other].state = FOLLOWER
              /\ nodes[other].currentTerm = nodes[leader].currentTerm
        => \A other \in NodeIds \ {leader} : nodes[other].votedFor = leader

\* C13  Replication: in the crash-free runs, when MaxWatch Tick steps have
\* passed since the last proposeLog and one Leader leads four live Followers
\* of its term, every Follower's log holds every entry of the Leader's log at
\* its index, and the Leader's commitIndex is the index of its last entry.
Replication ==
    \A leader \in NodeIds :
        /\ watch = MaxWatch
        /\ nodes[leader].state = LEADER
        /\ nodes[leader].log # <<>>
        /\ \A other \in NodeIds \ {leader} :
              /\ nodes[other].state = FOLLOWER
              /\ nodes[other].currentTerm = nodes[leader].currentTerm
        => /\ \A other \in NodeIds \ {leader} : IsPrefix(nodes[leader].log, nodes[other].log)
           /\ nodes[leader].commitIndex = Len(nodes[leader].log) - 1

\* C14  Recovery: when node 0, a former Leader that holds an entry of a term
\* it led, has been crashed and revived, another node is Leader with entries
\* of its own, node 0 is a Follower of that Leader's term like every other
\* node, and MaxWatch Tick steps have passed since the last call of the
\* operator, then node 0's log is equal to the Leader's log.
Recovery ==
    \A leader \in NodeIds \ {0} :
        /\ watch = MaxWatch
        /\ toggles = MaxToggles
        /\ \E i \in 1 .. Len(nodes[0].log) : <<nodes[0].log[i].term, 0>> \in everLeader
        /\ nodes[leader].state = LEADER
        /\ \E i \in 1 .. Len(nodes[leader].log) :
              nodes[leader].log[i].term = nodes[leader].currentTerm
        /\ \A other \in NodeIds \ {leader} :
              /\ nodes[other].state = FOLLOWER
              /\ nodes[other].currentTerm = nodes[leader].currentTerm
        => nodes[0].log = nodes[leader].log

\* the Candidates of term T that have voted for themselves
CandidatesOf(T) ==
    { id \in NodeIds : /\ nodes[id].state = CANDIDATE
                       /\ nodes[id].currentTerm = T
                       /\ nodes[id].votedFor = id }

\* C15 as stated  Split vote: when two nodes are Candidates of the same term
\* T, each with votedFor = itself, neither of them is Leader of term T after
\* the next step.
SplitVote ==
    [][\A T \in 1 .. MaxTerm :
          Cardinality(CandidatesOf(T)) >= 2
            => \A id \in CandidatesOf(T) :
                  ~(nodes'[id].state = LEADER /\ nodes'[id].currentTerm = T)]_vars

\* C15  Split vote, amended: a Candidate has votedFor = itself and refuses
\* the RequestVote of another Candidate of its term; a node becomes Leader
\* only with the granted votes of its term of at least two other nodes; and
\* no node is Leader of a term of which three other nodes are Candidates.
SplitVoteOfFour ==
    [][/\ \A id \in NodeIds : nodes[id].state = CANDIDATE => nodes[id].votedFor = id
       /\ \A k \in Arriving :
             /\ packets[k].type = REQUEST_VOTE
             /\ nodes[packets[k].to].state = CANDIDATE
             /\ packets[k].payload.term = nodes[packets[k].to].currentTerm
             => ~processRequestVote(nodes[packets[k].to], packets[k])
                    .replyPacket.payload.voteGranted
       /\ \A id \in NodeIds :
             nodes[id].state # LEADER /\ nodes'[id].state = LEADER
             => Cardinality(
                  (votesReceived[id] \cup
                     { packets[k].from : k \in
                         { j \in Arriving :
                             /\ packets[j].to = id
                             /\ packets[j].type = VOTE_RESPONSE
                             /\ packets[j].payload.voteGranted
                             /\ packets[j].payload.term = nodes'[id].currentTerm } })
                  \ {id}) >= 2
       /\ \A T \in 1 .. MaxTerm :
             Cardinality(CandidatesOf(T)) >= 3
             => \A id \in NodeIds :
                   ~(nodes[id].state = LEADER /\ nodes[id].currentTerm = T)]_vars

\* a Leader of term T has been elected while two other nodes are still
\* Candidates of term T
SplitVoteWitness ==
    \E T \in 1 .. MaxTerm : \E id \in NodeIds :
        /\ nodes[id].state = LEADER
        /\ nodes[id].currentTerm = T
        /\ Cardinality(CandidatesOf(T)) = 2

\* the Tick steps packet p has been in flight
Age(p) == p.progress \div (p.speed * stride)

\* C16  In-order, loss-free links: of two packets with the same sender and
\* the same live destination, the one created in an earlier tick is delivered
\* no later than the other, whatever the slider did between the ticks; and a
\* packet that a tick does not deliver stays in flight.
LinkOrder ==
    [][Tick =>
        /\ \A i \in 1 .. Len(packets) : \A j \in 1 .. Len(packets) :
              /\ packets[i].from = packets[j].from
              /\ packets[i].to = packets[j].to
              /\ nodes[packets[i].to].state # CRASHED
              /\ Age(packets[i]) > Age(packets[j])
              /\ HasArrived(Advance(packets[j]))
              => HasArrived(Advance(packets[i]))
        /\ LET staying == SelectSeq(Moved(packets), HasNotArrived)
           IN  /\ Len(packets') >= Len(staying)
               /\ SubSeq(packets', 1, Len(staying)) = staying]_vars

\* C17  RequestVote decision: processRequestVote adopts a strictly higher
\* term (Follower, votedFor cleared), grants iff the payload's term >= the
\* term after adoption, votedFor is unset or the candidate, and the
\* candidate's (lastLogTerm, lastLogIndex) is at least the receiver's; it
\* makes exactly one VoteResponse for the candidate with the term after the
\* update, and on grant sets votedFor = candidateId and electionTimeout =
\* currentTimeoutDuration; nothing else of the node changes.  The tick that
\* delivers the packet puts that one reply in flight.
RequestVoteDecision ==
    [][\A k \in Arriving :
          packets[k].type = REQUEST_VOTE /\ nodes[packets[k].to].state # CRASHED
          => LET node == nodes[packets[k].to]
                 payload == packets[k].payload
                 result == processRequestVote(node, packets[k])
                 adopts == payload.term > node.currentTerm
                 termAfter == IF adopts THEN payload.term ELSE node.currentTerm
                 stateAfter == IF adopts THEN FOLLOWER ELSE node.state
                 voteBefore == IF adopts THEN NULL ELSE node.votedFor
                 myLastIndex == Len(node.log) - 1
                 myLastTerm == IF node.log = <<>> THEN -1 ELSE node.log[Len(node.log)].term
                 upToDate ==
                     \/ payload.lastLogTerm > myLastTerm
                     \/ /\ payload.lastLogTerm = myLastTerm
                        /\ payload.lastLogIndex >= myLastIndex
                 grants ==
                     /\ payload.term >= termAfter
                     /\ voteBefore \in {NULL, payload.candidateId}
                     /\ upToDate
                 reply == [ from |-> node.id,
                            to |-> payload.candidateId,
                            type |-> VOTE_RESPONSE,
                            payload |-> [term |-> termAfter, voteGranted |-> grants],
                            progress |-> 0,
                            speed |-> PACKET_SPEED ]
             IN  /\ result.replyPacket = reply
                 /\ result.updatedNode =
                        [node EXCEPT
                           !.currentTerm = termAfter,
                           !.state = stateAfter,
                           !.votedFor = IF grants THEN payload.candidateId ELSE voteBefore,
                           !.electionTimeout = IF grants THEN node.currentTimeoutDuration
                                               ELSE node.electionTimeout]
                 /\ packets = <<packets[k]>>
                       => /\ packets' = <<reply>>
                          /\ nodes'[node.id].currentTerm = termAfter
                          /\ nodes'[node.id].state = stateAfter
                          /\ nodes'[node.id].votedFor = result.updatedNode.votedFor]_vars

\* the vote has been granted by a node that has adopted the candidate's term
\* and stepped down, and the reply is in flight
RequestVoteWitness ==
    /\ Len(packets) = 1
    /\ packets[1].type = VOTE_RESPONSE
    /\ packets[1].payload.voteGranted
    /\ packets[1].payload.term = MaxTerm
    /\ nodes[packets[1].from].votedFor = packets[1].to
    /\ nodes[packets[1].from].state = FOLLOWER
    /\ nodes[packets[1].from].log # <<>>

\* C18  One vote per term: no node ever sends VoteResponse with voteGranted
\* = true to two different candidates for the same term.
OneVotePerTerm ==
    \A a \in grantedVotes : \A b \in grantedVotes :
        a[1] = b[1] /\ a[2] = b[2] => a[3] = b[3]

\* C19  Delivery before timer aging: a live non-leader node whose
\* electionTimeout would run out in this tick, and to which the tick delivers
\* an AppendEntries with term >= its currentTerm, is not Candidate after the
\* tick, has the term the packets left it with, and sends no RequestVote.
DeliveryBeforeAging ==
    [][Tick =>
        \A k \in Arriving :
            /\ packets[k].type = APPEND_ENTRIES
            /\ nodes[packets[k].to].state \notin {CRASHED, LEADER}
            /\ nodes[packets[k].to].electionTimeout - stride <= 0
            /\ packets[k].payload.term >= nodes[packets[k].to].currentTerm
            => /\ nodes'[packets[k].to].state # CANDIDATE
               /\ nodes'[packets[k].to].currentTerm =
                     ProcessArrived(Working(nodes, votesReceived, ArrivedPackets(packets)))
                        .nodes[packets[k].to].currentTerm
               /\ \A j \in 1 .. Len(packets') :
                     ~(/\ packets'[j].type = REQUEST_VOTE
                       /\ packets'[j].progress = 0
                       /\ packets'[j].from = packets[k].to)]_vars

\* the election timer of a Candidate runs out in the tick that delivers the
\* AppendEntries of a Leader of its term
DeliveryBeforeAgingWitness ==
    \E k \in Arriving :
        /\ packets[k].type = APPEND_ENTRIES
        /\ nodes[packets[k].to].state = CANDIDATE
        /\ nodes[packets[k].to].electionTimeout - stride <= 0
        /\ packets[k].payload.term = nodes[packets[k].to].currentTerm

\* C20  Heartbeat payload derived from nextIndex: every AppendEntries a
\* Leader creates for peer p in a tick has prevLogIndex = nextIndex[p] - 1,
\* prevLogTerm = the term of the Leader's entry at prevLogIndex (-1 if there
\* is none) and entries = the Leader's log from index nextIndex[p] to the end.
HeartbeatPayload ==
    [][Tick =>
        \A j \in 1 .. Len(packets') :
            packets'[j].type = APPEND_ENTRIES /\ packets'[j].progress = 0
            => LET leader == nodes'[packets'[j].from]
                   next == leader.nextIndex[packets'[j].to]
                   payload == packets'[j].payload
               IN  /\ next >= 0
                   /\ payload.prevLogIndex = next - 1
                   /\ payload.prevLogTerm =
                         IF next - 1 >= 0 /\ next - 1 < Len(leader.log)
                         THEN leader.log[next].term
                         ELSE -1
                   /\ payload.entries = SubSeq(leader.log, next + 1, Len(leader.log))]_vars

\* C24  Commit requires a real majority: whenever AppendResponse handling
\* raises a Leader's commitIndex to i, more than half of the NODE_COUNT nodes,
\* the Leader among them, hold at index i an entry of the term of the
\* Leader's entry at i.
CommitByMajority ==
    \A e \in leaderCommits : 2 * Cardinality(e.holders) > NODE_COUNT

StepDownOnHigherTerm ==
    [][Tick =>
        \A k \in Arriving :
            /\ nodes[packets[k].to].state # CRASHED
            /\ packets[k].payload.term > nodes[packets[k].to].currentTerm
            => LET node == nodes[packets[k].to]
                   handled == Dispatch(Working(nodes, votesReceived, <<>>), Advance(packets[k]))
                   after == handled.nodes[node.id]
               IN  /\ after.state = FOLLOWER
                   /\ after.currentTerm = packets[k].payload.term
                   /\ \A other \in NodeIds \ {node.id} : handled.nodes[other] = nodes[other]
                   /\ packets[k].type \in {VOTE_RESPONSE, APPEND_RESPONSE}
                         => /\ handled.votes = votesReceived
                            /\ handled.commits = {}
                            /\ handled.out = <<>>
                            /\ after.nextIndex = node.nextIndex
                            /\ after.matchIndex = node.matchIndex
                            /\ after.commitIndex = node.commitIndex
                            /\ after.log = node.log
                   /\ nodes'[node.id].currentTerm >= packets[k].payload.term]_vars

\* a Leader has handled a VoteResponse or an AppendResponse of term MaxTerm:
\* it is a Follower of that term, with the nextIndex of its leadership, and
\* no reply is in flight
StepDownWitness ==
    /\ watch = 1
    /\ packets = <<>>
    /\ nodes[1].state = FOLLOWER
    /\ nodes[1].currentTerm = MaxTerm
    /\ nodes[1].votedFor = NULL
    /\ nodes[1].nextIndex # <<>>
    /\ nodes[1].log # <<>>

\* the peers that have granted node id a vote of term T
GrantersOf(id, T) == { voter \in NodeIds \ {id} : <<voter, T, id>> \in grantedVotes }

Overwritten(id) ==
    /\ nodes[id].state # CRASHED
    /\ nodes[id].commitIndex >= 1
    /\ Len(nodes[id].log) > 1
    /\ \E e \in leaderCommits :
          /\ e.leader = id
          /\ e.index = 1
          /\ e.entryTerm # At(nodes[id].log, 1).term

CommittedKept ==
    [][\A id \in NodeIds : \A i \in 0 .. nodes[id].commitIndex :
          /\ i < Len(nodes'[id].log)
          /\ i < Len(nodes[id].log) => At(nodes'[id].log, i) = At(nodes[id].log, i)]_vars

=========================================================================
